---- MODULE Spec2Model ----
(***************************************************************************)
(* A model of crun's libkrun custom handler (src/libcrun/handlers/krun.c): *)
(* the five hooks load, unload, modify_oci_configuration,                  *)
(* configure_container and exec, over the part of the environment they     *)
(* read and write (the two backend libraries, the sentinel and descriptor  *)
(* files, the rootfs, the host device nodes).                              *)
(*                                                                         *)
(* Three specifications share the module:                                  *)
(*   Spec           load, then exec (in steps) or unload                   *)
(*   SpecConfigure  configure_container, both phases                       *)
(*   SpecPatch      modify_oci_configuration                               *)
(***************************************************************************)
EXTENDS Integers, Sequences, FiniteSets, TLC

(***************************************************************************)
(* Bounds of the model.                                                    *)
(***************************************************************************)
\* context identifiers a backend hands out are 0..MaxCtx
MaxCtx == 1

\* files hold at most MaxLen bytes
MaxLen == 1

\* a spec declares at most MaxRules device-cgroup rules
MaxRules == 2

\* libkrun_modify_oci_configuration is called at most MaxPatches times
MaxPatches == 2

(***************************************************************************)
(* Program constants.                                                      *)
(***************************************************************************)
LIBKRUN_MAX_VCPUS == 16

KRUN_CONFIG_FILE == ".krun_config.json"
KRUN_SEV_FILE == "/krun-sev.json"
KRUN_VM_FILE == "/.krun_vm.json"

\* the names libkrun_load binds, also used as the handles dlopen returns
LIBKRUN_SO == "libkrun.so.1"
LIBKRUN_SEV_SO == "libkrun-sev.so.1"

NULL == "NULL"

\* the context argument of a call that takes none (krun_set_log_level)
NoCtx == 0 - 1

\* a ctx_id field of the cookie that was never assigned
Uninit == 0 - 2

\* the cookie before load and after a failed load
NoCookie == [handle |-> NULL, handle_sev |-> NULL, sev |-> FALSE,
             ctx_id |-> Uninit, ctx_id_sev |-> Uninit]

CtxIds == 0 .. MaxCtx

\* what a backend entry point can return: an error code or success
RetCodes == {0 - 1, 0}

\* what krun_create_ctx can return: an error code or a context identifier
CreateRets == {0 - 1} \cup CtxIds

(***************************************************************************)
(* Return values of the handler's own functions: an error carries the      *)
(* status given to crun_make_error, which returns a negative int.          *)
(***************************************************************************)
Ok(v) == [err |-> FALSE, status |-> 0, val |-> v]

crun_make_error(status) == [err |-> TRUE, status |-> status, val |-> (0 - status) - 1]

(***************************************************************************)
(* libkrun_create_context: has_sym is whether dlsym finds krun_create_ctx, *)
(* r is what krun_create_ctx returns.                                      *)
(***************************************************************************)
libkrun_create_context(has_sym, r) ==
  IF ~has_sym THEN crun_make_error(0)
  ELSE IF r < 0 THEN crun_make_error(0 - r)
  ELSE Ok(r)

\* libkrun_load storing each context in the field of the other library
libkrun_load_SwappedCtx(dl_std, dl_sev, sym_std, r_std, sym_sev, r_sev) ==
  LET h == IF dl_std THEN LIBKRUN_SO ELSE NULL
      hs == IF dl_sev THEN LIBKRUN_SEV_SO ELSE NULL
      c == libkrun_create_context(sym_std, r_std)
      cs == libkrun_create_context(sym_sev, r_sev)
  IN  IF h = NULL /\ hs = NULL
        THEN [ret |-> crun_make_error(0), cookie |-> NoCookie, created |-> {}]
      ELSE IF h # NULL /\ c.err
        THEN [ret |-> c, cookie |-> NoCookie, created |-> {}]
      ELSE IF hs # NULL /\ cs.err
        THEN [ret |-> cs, cookie |-> NoCookie,
              created |-> IF h # NULL THEN {[lib |-> LIBKRUN_SO, ctx |-> c.val]} ELSE {}]
      ELSE [ret |-> Ok(0),
            cookie |-> [handle |-> h, handle_sev |-> hs, sev |-> FALSE,
                        ctx_id |-> IF h # NULL THEN cs.val ELSE Uninit,
                        ctx_id_sev |-> IF hs # NULL THEN c.val ELSE Uninit],
            created |-> (IF h # NULL THEN {[lib |-> LIBKRUN_SO, ctx |-> c.val]} ELSE {})
                        \cup (IF hs # NULL THEN {[lib |-> LIBKRUN_SEV_SO, ctx |-> cs.val]}
                                            ELSE {})]

(***************************************************************************)
(* libkrun_load as a function of what dlopen, dlsym and krun_create_ctx    *)
(* answer for each library.  The ctx_id field of a library that is not     *)
(* bound is never assigned (Uninit).                                       *)
(* created: the libraries whose krun_create_ctx returned a context, each   *)
(* with the context it returned.                                           *)
(***************************************************************************)
libkrun_load(dl_std, dl_sev, sym_std, r_std, sym_sev, r_sev) ==
  LET h == IF dl_std THEN LIBKRUN_SO ELSE NULL
      hs == IF dl_sev THEN LIBKRUN_SEV_SO ELSE NULL
      c == libkrun_create_context(sym_std, r_std)
      cs == libkrun_create_context(sym_sev, r_sev)
  IN  IF h = NULL /\ hs = NULL
        THEN [ret |-> crun_make_error(0), cookie |-> NoCookie, created |-> {}]
      ELSE IF h # NULL /\ c.err
        THEN [ret |-> c, cookie |-> NoCookie, created |-> {}]
      ELSE IF hs # NULL /\ cs.err
        THEN [ret |-> cs, cookie |-> NoCookie,
              created |-> IF h # NULL THEN {[lib |-> LIBKRUN_SO, ctx |-> c.val]} ELSE {}]
      ELSE [ret |-> Ok(0),
            cookie |-> [handle |-> h, handle_sev |-> hs, sev |-> FALSE,
                        ctx_id |-> IF h # NULL THEN c.val ELSE Uninit,
                        ctx_id_sev |-> IF hs # NULL THEN cs.val ELSE Uninit],
            created |-> (IF h # NULL THEN {[lib |-> LIBKRUN_SO, ctx |-> c.val]} ELSE {})
                        \cup (IF hs # NULL THEN {[lib |-> LIBKRUN_SEV_SO, ctx |-> cs.val]}
                                            ELSE {})]

(***************************************************************************)
(* libkrun_unload: rc and rc_sev are what dlclose returns for each         *)
(* library; closed lists the dlclose calls made, in order.                 *)
(***************************************************************************)
libkrun_unload(k, rc, rc_sev) ==
  LET first == IF k.handle # NULL THEN <<[lib |-> k.handle, rc |-> rc]>> ELSE <<>>
  IN  IF k.handle # NULL /\ rc # 0
        THEN [ret |-> crun_make_error(0), closed |-> first]
      ELSE IF k.handle_sev # NULL
        THEN [ret |-> IF rc_sev # 0 THEN crun_make_error(0) ELSE Ok(0),
              closed |-> Append(first, [lib |-> k.handle_sev, rc |-> rc_sev])]
      ELSE [ret |-> Ok(0), closed |-> first]

(***************************************************************************)
(* Backend calls.  A call made through a pointer dlsym returned is logged  *)
(* with the library it was resolved from, the entry point, the context     *)
(* passed (NoCtx when the entry point takes none), its string and integer  *)
(* arguments as the callee receives them, and what it returned.            *)
(***************************************************************************)
Call(lib, fn, ctx, s1, s2, s3, n1, n2, r) ==
  [lib |-> lib, fn |-> fn, ctx |-> ctx, s1 |-> s1, s2 |-> s2, s3 |-> s3,
   n1 |-> n1, n2 |-> n2, ret |-> r]

\* An unsigned argument as the callee receives it, in two 16-bit limbs
\* (value = hi * 65536 + lo): the conversions to the uint8_t and uint32_t
\* parameters of the backend ABI reduce modulo 2^8 and 2^32.
ToU8(x) == [hi |-> 0, lo |-> x % 256]

ToU32(x) == [hi |-> (x \div 65536) % 65536, lo |-> x % 65536]

\* C's integer division, which truncates toward zero
CDiv(a, b) == IF a >= 0 THEN a \div b ELSE 0 - ((0 - a) \div b)

(***************************************************************************)
(* The VM descriptor /.krun_vm.json as yajl parses it: a value is absent   *)
(* from the tree or has a type; a number is an integer or a double.        *)
(***************************************************************************)
JAbsent == [t |-> "absent", s |-> NULL, n |-> 0]

JStr(s) == [t |-> "string", s |-> s, n |-> 0]

JInt(n) == [t |-> "integer", s |-> NULL, n |-> n]

JDouble == [t |-> "double", s |-> NULL, n |-> 0]

\* yajl_tree_get: the value at key when it has the wanted type, else NULL
yajl_tree_get(tree, key, type) ==
  LET v == tree[key]
  IN  IF type = "string" /\ v.t = "string" THEN v
      ELSE IF type = "number" /\ v.t \in {"integer", "double"} THEN v
      ELSE JAbsent

YAJL_IS_STRING(v) == v.t = "string"

YAJL_IS_INTEGER(v) == v.t = "integer"

\* a string argument: the value's string, or NULL when it was not set
YAJL_GET_STRING(v) == IF v.t = "string" THEN v.s ELSE NULL

\* KernelPairValid with the test of kernel_format left out
KernelPairValid_PathOnly(kernel_path, kernel_format) ==
  ~(kernel_path = JAbsent \/ ~YAJL_IS_STRING(kernel_path))

\* kernel_path and kernel_format must be present: a string and an integer
KernelPairValid(kernel_path, kernel_format) ==
  /\ ~(kernel_path = JAbsent \/ ~YAJL_IS_STRING(kernel_path))
  /\ ~(kernel_format = JAbsent \/ ~YAJL_IS_INTEGER(kernel_format))

\* SizingPairValid with the tests of ram_mib left out
SizingPairValid_CpusOnly(cpus, ram_mib) ==
  ~(cpus = JAbsent \/ ~YAJL_IS_INTEGER(cpus))

\* both cpus and ram_mib must be present at the same time, as integers
SizingPairValid(cpus, ram_mib) ==
  ~(cpus = JAbsent \/ ram_mib = JAbsent
    \/ ~YAJL_IS_INTEGER(cpus) \/ ~YAJL_IS_INTEGER(ram_mib))

\* libkrun_configure_kernel reporting a missing krun_set_kernel with an error number
libkrun_configure_kernel_Errno(ctx_id, handle, tree, has_sym, r) ==
  LET kernel_path == yajl_tree_get(tree, "kernel_path", "string")
      kernel_format == yajl_tree_get(tree, "kernel_format", "number")
      val_initrd_path == yajl_tree_get(tree, "initrd_path", "string")
      val_kernel_cmdline == yajl_tree_get(tree, "kernel_cmdline", "string")
  IN  IF ~KernelPairValid(kernel_path, kernel_format)
        THEN [ret |-> Ok(0), nosym |-> NULL, calls |-> <<>>]
      ELSE IF ~has_sym
        THEN [ret |-> crun_make_error(2), nosym |-> "krun_set_kernel", calls |-> <<>>]
      ELSE [ret |-> IF r < 0 THEN crun_make_error(0 - r) ELSE Ok(0),
            nosym |-> NULL,
            calls |-> <<Call(handle, "krun_set_kernel", ctx_id,
                             YAJL_GET_STRING(kernel_path),
                             YAJL_GET_STRING(val_initrd_path),
                             YAJL_GET_STRING(val_kernel_cmdline),
                             ToU32(kernel_format.n), ToU32(0), r)>>]

(***************************************************************************)
(* libkrun_configure_kernel: has_sym is whether dlsym finds                *)
(* krun_set_kernel in handle, r what krun_set_kernel returns.              *)
(***************************************************************************)
libkrun_configure_kernel(ctx_id, handle, tree, has_sym, r) ==
  LET kernel_path == yajl_tree_get(tree, "kernel_path", "string")
      kernel_format == yajl_tree_get(tree, "kernel_format", "number")
      val_initrd_path == yajl_tree_get(tree, "initrd_path", "string")
      val_kernel_cmdline == yajl_tree_get(tree, "kernel_cmdline", "string")
  IN  IF ~KernelPairValid(kernel_path, kernel_format)
        THEN [ret |-> Ok(0), nosym |-> NULL, calls |-> <<>>]
      ELSE IF ~has_sym
        THEN [ret |-> crun_make_error(0), nosym |-> "krun_set_kernel", calls |-> <<>>]
      ELSE [ret |-> IF r < 0 THEN crun_make_error(0 - r) ELSE Ok(0),
            nosym |-> NULL,
            calls |-> <<Call(handle, "krun_set_kernel", ctx_id,
                             YAJL_GET_STRING(kernel_path),
                             YAJL_GET_STRING(val_initrd_path),
                             YAJL_GET_STRING(val_kernel_cmdline),
                             ToU32(kernel_format.n), ToU32(0), r)>>]

\* libkrun_configure_vm without the assignment *configured = true
libkrun_configure_vm_NoFlag(ctx_id, handle, file, tree, sym_k, r_k, sym_vm, r_vm) ==
  LET k == libkrun_configure_kernel(ctx_id, handle, tree, sym_k, r_k)
      cpus == yajl_tree_get(tree, "cpus", "number")
      ram_mib == yajl_tree_get(tree, "ram_mib", "number")
  IN  IF file = "absent"
        THEN [ret |-> Ok(0), configured |-> FALSE, nosym |-> NULL, calls |-> <<>>]
      ELSE IF file = "unreadable"
        THEN [ret |-> crun_make_error(5), configured |-> FALSE, nosym |-> NULL,
              calls |-> <<>>]
      ELSE IF file = "malformed"
        THEN [ret |-> crun_make_error(0), configured |-> FALSE, nosym |-> NULL,
              calls |-> <<>>]
      ELSE IF k.ret.err
        THEN [ret |-> k.ret, configured |-> FALSE, nosym |-> k.nosym, calls |-> k.calls]
      ELSE IF ~SizingPairValid(cpus, ram_mib)
        THEN [ret |-> Ok(0), configured |-> FALSE, nosym |-> NULL, calls |-> k.calls]
      ELSE IF ~sym_vm
        THEN [ret |-> crun_make_error(0), configured |-> FALSE,
              nosym |-> "krun_set_vm_config", calls |-> k.calls]
      ELSE IF r_vm < 0
        THEN [ret |-> crun_make_error(0 - r_vm), configured |-> FALSE, nosym |-> NULL,
              calls |-> Append(k.calls,
                          Call(handle, "krun_set_vm_config", ctx_id, NULL, NULL, NULL,
                               ToU8(cpus.n), ToU32(ram_mib.n), r_vm))]
      ELSE [ret |-> Ok(0), configured |-> FALSE, nosym |-> NULL,
            calls |-> Append(k.calls,
                        Call(handle, "krun_set_vm_config", ctx_id, NULL, NULL, NULL,
                             ToU8(cpus.n), ToU32(ram_mib.n), r_vm))]

\* libkrun_configure_vm taking a descriptor that does not parse as an empty one
libkrun_configure_vm_Lenient(ctx_id, handle, file, tree, sym_k, r_k, sym_vm, r_vm) ==
  LET k == libkrun_configure_kernel(ctx_id, handle, tree, sym_k, r_k)
      cpus == yajl_tree_get(tree, "cpus", "number")
      ram_mib == yajl_tree_get(tree, "ram_mib", "number")
  IN  IF file = "absent"
        THEN [ret |-> Ok(0), configured |-> FALSE, nosym |-> NULL, calls |-> <<>>]
      ELSE IF file = "unreadable"
        THEN [ret |-> crun_make_error(5), configured |-> FALSE, nosym |-> NULL,
              calls |-> <<>>]
      ELSE IF file = "malformed"
        THEN [ret |-> Ok(0), configured |-> FALSE, nosym |-> NULL, calls |-> <<>>]
      ELSE IF k.ret.err
        THEN [ret |-> k.ret, configured |-> FALSE, nosym |-> k.nosym, calls |-> k.calls]
      ELSE IF ~SizingPairValid(cpus, ram_mib)
        THEN [ret |-> Ok(0), configured |-> FALSE, nosym |-> NULL, calls |-> k.calls]
      ELSE IF ~sym_vm
        THEN [ret |-> crun_make_error(0), configured |-> FALSE,
              nosym |-> "krun_set_vm_config", calls |-> k.calls]
      ELSE IF r_vm < 0
        THEN [ret |-> crun_make_error(0 - r_vm), configured |-> FALSE, nosym |-> NULL,
              calls |-> Append(k.calls,
                          Call(handle, "krun_set_vm_config", ctx_id, NULL, NULL, NULL,
                               ToU8(cpus.n), ToU32(ram_mib.n), r_vm))]
      ELSE [ret |-> Ok(0), configured |-> TRUE, nosym |-> NULL,
            calls |-> Append(k.calls,
                        Call(handle, "krun_set_vm_config", ctx_id, NULL, NULL, NULL,
                             ToU8(cpus.n), ToU32(ram_mib.n), r_vm))]

(***************************************************************************)
(* libkrun_configure_vm: file is the state of /.krun_vm.json ("absent",    *)
(* "unreadable", "malformed" or "ok", then tree is its content);           *)
(* sym_k, r_k, sym_vm, r_vm are the answers of dlsym and of the entry      *)
(* points krun_set_kernel and krun_set_vm_config.                          *)
(***************************************************************************)
libkrun_configure_vm(ctx_id, handle, file, tree, sym_k, r_k, sym_vm, r_vm) ==
  LET k == libkrun_configure_kernel(ctx_id, handle, tree, sym_k, r_k)
      cpus == yajl_tree_get(tree, "cpus", "number")
      ram_mib == yajl_tree_get(tree, "ram_mib", "number")
  IN  IF file = "absent"
        THEN [ret |-> Ok(0), configured |-> FALSE, nosym |-> NULL, calls |-> <<>>]
      ELSE IF file = "unreadable"
        THEN [ret |-> crun_make_error(5), configured |-> FALSE, nosym |-> NULL,
              calls |-> <<>>]
      ELSE IF file = "malformed"
        THEN [ret |-> crun_make_error(0), configured |-> FALSE, nosym |-> NULL,
              calls |-> <<>>]
      ELSE IF k.ret.err
        THEN [ret |-> k.ret, configured |-> FALSE, nosym |-> k.nosym, calls |-> k.calls]
      ELSE IF ~SizingPairValid(cpus, ram_mib)
        THEN [ret |-> Ok(0), configured |-> FALSE, nosym |-> NULL, calls |-> k.calls]
      ELSE IF ~sym_vm
        THEN [ret |-> crun_make_error(0), configured |-> FALSE,
              nosym |-> "krun_set_vm_config", calls |-> k.calls]
      ELSE IF r_vm < 0
        THEN [ret |-> crun_make_error(0 - r_vm), configured |-> FALSE, nosym |-> NULL,
              calls |-> Append(k.calls,
                          Call(handle, "krun_set_vm_config", ctx_id, NULL, NULL, NULL,
                               ToU8(cpus.n), ToU32(ram_mib.n), r_vm))]
      ELSE [ret |-> Ok(0), configured |-> TRUE, nosym |-> NULL,
            calls |-> Append(k.calls,
                        Call(handle, "krun_set_vm_config", ctx_id, NULL, NULL, NULL,
                             ToU8(cpus.n), ToU32(ram_mib.n), r_vm))]

(***************************************************************************)
(* The legacy sizing of libkrun_exec: limit is the spec's memory limit in  *)
(* bytes ("none" when not declared), cpu_count the size of the affinity    *)
(* set sched_getaffinity fills (aff_ok: whether it succeeded).             *)
(***************************************************************************)
LegacyRamMib(limit_present, limit) ==
  IF limit_present THEN ToU32(CDiv(limit, 1024 * 1024)) ELSE ToU32(2 * 1024)

LegacyVcpus(aff_ok, cpu_count) ==
  IF aff_ok
    THEN (IF cpu_count < LIBKRUN_MAX_VCPUS THEN cpu_count ELSE LIBKRUN_MAX_VCPUS)
    ELSE 1

\* SelectBackend taking the standard context for the confidential library
SelectBackend_StdCtx(k, sev_present) ==
  IF sev_present
    THEN IF k.handle_sev = NULL
           THEN [fatal |-> TRUE, handle |-> NULL, ctx_id |-> NoCtx, sev |-> k.sev, msg |-> ""]
           ELSE [fatal |-> FALSE, handle |-> k.handle_sev, ctx_id |-> k.ctx_id,
                 sev |-> TRUE, msg |-> ""]
    ELSE IF k.handle = NULL
           THEN [fatal |-> TRUE, handle |-> NULL, ctx_id |-> NoCtx, sev |-> k.sev, msg |-> ""]
           ELSE [fatal |-> FALSE, handle |-> k.handle, ctx_id |-> k.ctx_id,
                 sev |-> FALSE, msg |-> ""]

\* SelectBackend falling back to the library that is bound
SelectBackend_Fallback(k, sev_present) ==
  IF (sev_present /\ k.handle_sev # NULL) \/ k.handle = NULL
    THEN [fatal |-> FALSE, handle |-> k.handle_sev, ctx_id |-> k.ctx_id_sev,
          sev |-> TRUE, msg |-> ""]
    ELSE [fatal |-> FALSE, handle |-> k.handle, ctx_id |-> k.ctx_id,
          sev |-> FALSE, msg |-> ""]

(***************************************************************************)
(* The backend selection of libkrun_exec: sev_present is the answer of     *)
(* access (KRUN_SEV_FILE, F_OK) == 0.  fatal: error (EXIT_FAILURE, ...).   *)
(***************************************************************************)
SelectBackend(k, sev_present) ==
  IF sev_present
    THEN IF k.handle_sev = NULL
           THEN [fatal |-> TRUE, handle |-> NULL, ctx_id |-> NoCtx, sev |-> k.sev,
                 msg |-> "the container requires libkrun-sev but it's not available"]
           ELSE [fatal |-> FALSE, handle |-> k.handle_sev, ctx_id |-> k.ctx_id_sev,
                 sev |-> TRUE, msg |-> ""]
    ELSE IF k.handle = NULL
           THEN [fatal |-> TRUE, handle |-> NULL, ctx_id |-> NoCtx, sev |-> k.sev,
                 msg |-> "the container requires libkrun but it's not available"]
           ELSE [fatal |-> FALSE, handle |-> k.handle, ctx_id |-> k.ctx_id,
                 sev |-> FALSE, msg |-> ""]

\* ConfigureRoot calling krun_set_workdir whether or not the spec declares
\* a working directory
ConfigureRoot_AlwaysWorkdir(sev, handle, ctx_id, cwd, sym1, sym2, r1, r2) ==
  LET disk == Call(handle, "krun_set_root_disk", ctx_id, "/disk.img", NULL, NULL,
                   ToU32(0), ToU32(0), r1)
      tee == Call(handle, "krun_set_tee_config_file", ctx_id, KRUN_SEV_FILE, NULL, NULL,
                  ToU32(0), ToU32(0), r2)
      root == Call(handle, "krun_set_root", ctx_id, "/", NULL, NULL,
                   ToU32(0), ToU32(0), r1)
      workdir == Call(handle, "krun_set_workdir", ctx_id, cwd, NULL, NULL,
                      ToU32(0), ToU32(0), r2)
  IN  IF sev
        THEN IF ~sym1 \/ ~sym2
               THEN [fatal |-> TRUE, errnum |-> 0, calls |-> <<>>,
                     nosym |-> IF ~sym1 THEN "krun_set_root_disk"
                               ELSE "krun_set_tee_config_file",
                     msg |-> "could not find symbol in libkrun-sev.so"]
             ELSE IF r1 < 0
               THEN [fatal |-> TRUE, errnum |-> 0 - r1, calls |-> <<disk>>, nosym |-> NULL,
                     msg |-> "could not set root disk"]
             ELSE IF r2 < 0
               THEN [fatal |-> TRUE, errnum |-> 0 - r2, calls |-> <<disk, tee>>, nosym |-> NULL,
                     msg |-> "could not set krun tee config file"]
             ELSE [fatal |-> FALSE, errnum |-> 0, calls |-> <<disk, tee>>, nosym |-> NULL, msg |-> ""]
        ELSE IF ~sym1 \/ ~sym2
               THEN [fatal |-> TRUE, errnum |-> 0, calls |-> <<>>,
                     nosym |-> IF ~sym1 THEN "krun_set_root" ELSE "krun_set_workdir",
                     msg |-> "could not find symbol in libkrun.so"]
             ELSE IF r1 < 0
               THEN [fatal |-> TRUE, errnum |-> 0 - r1, calls |-> <<root>>, nosym |-> NULL,
                     msg |-> "could not set krun root"]
             ELSE IF r2 < 0
               THEN [fatal |-> TRUE, errnum |-> 0 - r2, calls |-> <<root, workdir>>, nosym |-> NULL,
                     msg |-> "could not set krun working directory"]
             ELSE [fatal |-> FALSE, errnum |-> 0, calls |-> <<root, workdir>>, nosym |-> NULL, msg |-> ""]

(***************************************************************************)
(* The root configuration of libkrun_exec, by variant: sym1, sym2 are the  *)
(* answers of dlsym for the variant's two setters, r1, r2 what the setters *)
(* return, cwd the spec's process working directory (NULL: not declared).  *)
(***************************************************************************)
ConfigureRoot(sev, handle, ctx_id, cwd, sym1, sym2, r1, r2) ==
  LET disk == Call(handle, "krun_set_root_disk", ctx_id, "/disk.img", NULL, NULL,
                   ToU32(0), ToU32(0), r1)
      tee == Call(handle, "krun_set_tee_config_file", ctx_id, KRUN_SEV_FILE, NULL, NULL,
                  ToU32(0), ToU32(0), r2)
      root == Call(handle, "krun_set_root", ctx_id, "/", NULL, NULL,
                   ToU32(0), ToU32(0), r1)
      workdir == Call(handle, "krun_set_workdir", ctx_id, cwd, NULL, NULL,
                      ToU32(0), ToU32(0), r2)
  IN  IF sev
        THEN IF ~sym1 \/ ~sym2
               THEN [fatal |-> TRUE, errnum |-> 0, calls |-> <<>>,
                     nosym |-> IF ~sym1 THEN "krun_set_root_disk"
                               ELSE "krun_set_tee_config_file",
                     msg |-> "could not find symbol in libkrun-sev.so"]
             ELSE IF r1 < 0
               THEN [fatal |-> TRUE, errnum |-> 0 - r1, calls |-> <<disk>>, nosym |-> NULL,
                     msg |-> "could not set root disk"]
             ELSE IF r2 < 0
               THEN [fatal |-> TRUE, errnum |-> 0 - r2, calls |-> <<disk, tee>>, nosym |-> NULL,
                     msg |-> "could not set krun tee config file"]
             ELSE [fatal |-> FALSE, errnum |-> 0, calls |-> <<disk, tee>>, nosym |-> NULL, msg |-> ""]
        ELSE IF ~sym1 \/ ~sym2
               THEN [fatal |-> TRUE, errnum |-> 0, calls |-> <<>>,
                     nosym |-> IF ~sym1 THEN "krun_set_root" ELSE "krun_set_workdir",
                     msg |-> "could not find symbol in libkrun.so"]
             ELSE IF r1 < 0
               THEN [fatal |-> TRUE, errnum |-> 0 - r1, calls |-> <<root>>, nosym |-> NULL,
                     msg |-> "could not set krun root"]
             ELSE IF cwd = NULL
               THEN [fatal |-> FALSE, errnum |-> 0, calls |-> <<root>>, nosym |-> NULL, msg |-> ""]
             ELSE IF r2 < 0
               THEN [fatal |-> TRUE, errnum |-> 0 - r2, calls |-> <<root, workdir>>, nosym |-> NULL,
                     msg |-> "could not set krun working directory"]
             ELSE [fatal |-> FALSE, errnum |-> 0, calls |-> <<root, workdir>>, nosym |-> NULL, msg |-> ""]

\* libkrun_exec returning what krun_start_enter returned
libkrun_exec_return_AsIs(ret) == ret

\* what libkrun_exec returns: ret is what krun_start_enter returned
libkrun_exec_return(ret) == 0 - ret

(***************************************************************************)
(* Inputs of a launch.                                                     *)
(***************************************************************************)
EmptyTree == [kernel_path |-> JAbsent, kernel_format |-> JAbsent,
              initrd_path |-> JAbsent, kernel_cmdline |-> JAbsent,
              cpus |-> JAbsent, ram_mib |-> JAbsent]

\* the documents /.krun_vm.json can hold: every field absent, well typed
\* or ill typed
Trees == [kernel_path : {JAbsent, JStr("/vmlinux"), JInt(7)},
          kernel_format : {JAbsent, JInt(1), JStr("raw")},
          initrd_path : {JAbsent, JStr("/initrd")},
          kernel_cmdline : {JAbsent, JStr("quiet")},
          cpus : {JAbsent, JInt(4), JDouble},
          ram_mib : {JAbsent, JInt(4096), JStr("4G")}]

\* the states of /.krun_vm.json and the tree read from it
Descriptors ==
  {[file |-> f, tree |-> EmptyTree] : f \in {"absent", "unreadable", "malformed"}}
    \cup {[file |-> "ok", tree |-> t] : t \in Trees}

NoDescriptor == [file |-> "unread", tree |-> EmptyTree]

\* the spec's memory limit in bytes: not declared, or a value
MemLimits == {[present |-> FALSE, limit |-> 0],
              [present |-> TRUE, limit |-> 1073741824],
              [present |-> TRUE, limit |-> 0 - 1048576]}

\* sched_getaffinity: failure, or the size of the affinity set
Affinities == {[ok |-> FALSE, count |-> 0], [ok |-> TRUE, count |-> 8],
               [ok |-> TRUE, count |-> 17]}

NoSizing == [limit |-> [present |-> FALSE, limit |-> 0],
             aff |-> [ok |-> FALSE, count |-> 0], used |-> FALSE]

Cwds == {NULL, "/work"}

NoResult == [kind |-> "none", errnum |-> 0, msg |-> ""]

Fatal(errnum, msg) == [kind |-> "exit", errnum |-> errnum, msg |-> msg]

(***************************************************************************)
(* libkrun_exec as one function of the handler state and of what the       *)
(* launch finds: sev_present, the answer of access (KRUN_SEV_FILE, F_OK);  *)
(* c, def->process->cwd; d, /.krun_vm.json; m, the memory limit; a, what   *)
(* sched_getaffinity gives; syms, the entry points dlsym finds in the      *)
(* selected library; rets, what each entry point returns.                  *)
(***************************************************************************)
EntryPoints == {"krun_set_log_level", "krun_start_enter", "krun_set_root",
                "krun_set_workdir", "krun_set_root_disk", "krun_set_tee_config_file",
                "krun_set_kernel", "krun_set_vm_config"}

libkrun_exec(k, sev_present, c, d, m, a, syms, rets) ==
  LET sel == SelectBackend(k, sev_present)
      log == Call(sel.handle, "krun_set_log_level", NoCtx, NULL, NULL, NULL,
                  ToU32(1), ToU32(0), rets["krun_set_log_level"])
      root == IF sel.sev
                THEN ConfigureRoot(TRUE, sel.handle, sel.ctx_id, c,
                                   "krun_set_root_disk" \in syms,
                                   "krun_set_tee_config_file" \in syms,
                                   rets["krun_set_root_disk"],
                                   rets["krun_set_tee_config_file"])
                ELSE ConfigureRoot(FALSE, sel.handle, sel.ctx_id, c,
                                   "krun_set_root" \in syms, "krun_set_workdir" \in syms,
                                   rets["krun_set_root"], rets["krun_set_workdir"])
      vm == libkrun_configure_vm(sel.ctx_id, sel.handle, d.file, d.tree,
                                 "krun_set_kernel" \in syms, rets["krun_set_kernel"],
                                 "krun_set_vm_config" \in syms, rets["krun_set_vm_config"])
      legacy == Call(sel.handle, "krun_set_vm_config", sel.ctx_id, NULL, NULL, NULL,
                     ToU8(LegacyVcpus(a.ok, a.count)), LegacyRamMib(m.present, m.limit),
                     rets["krun_set_vm_config"])
      start == Call(sel.handle, "krun_start_enter", sel.ctx_id, NULL, NULL, NULL,
                    ToU32(0), ToU32(0), rets["krun_start_enter"])
      selected == [sev |-> sel.sev, handle |-> sel.handle, ctx_id |-> sel.ctx_id,
                   cwd |-> NULL, desc |-> NoDescriptor, configured |-> FALSE,
                   sizing |-> NoSizing, calls |-> <<>>, nosym |-> NULL, ret |-> NoResult]
      rooted == [selected EXCEPT !.cwd = c, !.calls = <<log>> \o root.calls]
      described == [rooted EXCEPT !.desc = d, !.calls = @ \o vm.calls,
                                  !.configured = vm.configured]
      sized == [described EXCEPT !.sizing = [limit |-> m, aff |-> a, used |-> TRUE]]
  IN  IF sel.fatal
        THEN [selected EXCEPT !.ret = Fatal(0, sel.msg)]
      ELSE IF "krun_set_log_level" \notin syms \/ "krun_start_enter" \notin syms
        THEN [selected EXCEPT !.ret = Fatal(0, "could not find symbol in the krun library"),
                              !.nosym = IF "krun_set_log_level" \notin syms
                                          THEN "krun_set_log_level" ELSE "krun_start_enter"]
      ELSE IF root.fatal
        THEN [rooted EXCEPT !.ret = Fatal(root.errnum, root.msg), !.nosym = root.nosym]
      ELSE IF vm.ret.err
        THEN [described EXCEPT !.ret = Fatal(vm.ret.val, "could not configure krun vm"),
                               !.nosym = vm.nosym, !.configured = FALSE]
      ELSE IF vm.configured
        THEN [described EXCEPT !.calls = Append(@, start),
                               !.ret = [kind |-> "return", msg |-> "",
                                        errnum |-> libkrun_exec_return(start.ret)]]
      ELSE IF "krun_set_vm_config" \notin syms
        THEN [sized EXCEPT !.ret = Fatal(0, "could not find symbol in libkrun.so"),
                           !.nosym = "krun_set_vm_config"]
      ELSE IF legacy.ret < 0
        THEN [sized EXCEPT !.calls = Append(@, legacy),
                           !.ret = Fatal(0 - legacy.ret,
                                         "could not set krun vm configuration")]
      ELSE [sized EXCEPT !.calls = @ \o <<legacy, start>>,
                         !.ret = [kind |-> "return", msg |-> "",
                                  errnum |-> libkrun_exec_return(start.ret)]]

(***************************************************************************)
(* State.                                                                  *)
(***************************************************************************)
VARIABLES
  pc,          \* where the handler's lifecycle stands
  kconf,       \* struct krun_config, the cookie
  load_in,     \* which libraries dlopen bound in libkrun_load
  created,     \* the contexts krun_create_ctx returned, each with its library
  load_ret,    \* what libkrun_load returned
  closed,      \* the dlclose calls libkrun_unload made
  unload_ret,  \* what libkrun_unload returned
  sentinel,    \* whether /krun-sev.json exists now
  sev_tests,   \* how many times libkrun_exec tested the sentinel
  sev_seen,    \* what the test answered
  handle,      \* libkrun_exec's local handle
  ctx_id,      \* libkrun_exec's local ctx_id
  cwd,         \* def->process->cwd as libkrun_exec read it
  desc,        \* /.krun_vm.json as libkrun_configure_vm found it
  configured,  \* libkrun_exec's local configured
  sizing,      \* the inputs of the legacy sizing, once used
  calls,       \* the backend calls of the launch, in order
  exec_ret,    \* how libkrun_exec ended
  nosym,       \* the entry point dlsym did not find in the launch, if any
  \* libkrun_configure_container
  rootfs,      \* the rootfs argument: NULL or a path
  decl,        \* the paths of def->linux->devices, in order
  config_json, \* config.json in the container's state directory
  staged,      \* the entry .krun_config.json of the rootfs directory
  rootfs_files, \* the files a link can name, resolved below the rootfs
  host_files,  \* the files the same names name on the host
  dev_nodes,   \* the device nodes in the container's dev directory
  conf_phase,  \* the phase of the last call
  conf_ret,    \* what the last call returned
  opened,      \* the descriptors the last call opened
  still_open,  \* those of them open when it returned
  prev_staged, \* staged before the last call
  prev_files,  \* rootfs_files before the last call
  prev_nodes,  \* dev_nodes before the last call
  \* libkrun_modify_oci_configuration
  resources,   \* how much of def->linux->resources->devices exists
  devices,     \* def->linux->resources->devices, the array
  devices_len, \* def->linux->resources->devices_len
  host_kvm,    \* /dev/kvm on the host
  host_sev,    \* /dev/sev on the host
  patch_ret,   \* what the last call returned
  patched,     \* how many calls were made
  prev_devices, \* devices before the last call
  prev_len     \* devices_len before the last call

execVars == <<pc, load_in, created, load_ret, closed, unload_ret, sentinel,
              sev_tests, sev_seen, handle, ctx_id, cwd, desc, configured, sizing,
              calls, exec_ret, nosym>>

confVars == <<rootfs, decl, config_json, staged, rootfs_files, host_files,
              dev_nodes, conf_phase, conf_ret, opened, still_open, prev_staged,
              prev_files, prev_nodes>>

patchVars == <<resources, devices, devices_len, host_kvm, host_sev, patch_ret,
               patched, prev_devices, prev_len>>

vars == <<kconf, execVars, confVars, patchVars>>

loadVars == <<load_in, created, load_ret>>

unloadVars == <<closed, unload_ret>>

launchVars == <<sev_tests, sev_seen, handle, ctx_id, cwd, desc, configured,
                sizing, calls, exec_ret, nosym>>

\* the launch has not begun
LaunchIdle ==
  /\ sev_tests = 0
  /\ sev_seen = FALSE
  /\ handle = NULL
  /\ ctx_id = NoCtx
  /\ cwd = NULL
  /\ desc = NoDescriptor
  /\ configured = FALSE
  /\ sizing = NoSizing
  /\ calls = <<>>
  /\ exec_ret = NoResult
  /\ nosym = NULL

\* libkrun_load and libkrun_unload have not run
LoadIdle ==
  /\ load_in = [dl_std |-> FALSE, dl_sev |-> FALSE]
  /\ created = {}
  /\ load_ret = Ok(0)
  /\ closed = <<>>
  /\ unload_ret = Ok(0)

NoEntry == [kind |-> "absent", data |-> <<>>, target |-> NULL, mode |-> {}]

FileAbsent == [exists |-> FALSE, data |-> <<>>]

\* the names a symbolic link is given in the model: an absolute and a
\* relative path
LinkTargets == {"/etc/shadow", "other.json"}

\* libkrun_configure_container has not run, on an empty filesystem
ConfIdle ==
  /\ rootfs = NULL
  /\ decl = <<>>
  /\ config_json = [ok |-> FALSE, data |-> <<>>]
  /\ staged = NoEntry
  /\ rootfs_files = [t \in LinkTargets |-> FileAbsent]
  /\ host_files = [t \in LinkTargets |-> FileAbsent]
  /\ dev_nodes = {}
  /\ conf_phase = "none"
  /\ conf_ret = Ok(0)
  /\ opened = {}
  /\ still_open = {}
  /\ prev_staged = NoEntry
  /\ prev_files = rootfs_files
  /\ prev_nodes = {}

NoStat == [ok |-> FALSE, errno |-> 2, major |-> 0, minor |-> 0]

\* libkrun_modify_oci_configuration has not run, on a spec with no linux section
PatchIdle ==
  /\ resources = "no_linux"
  /\ devices = <<>>
  /\ devices_len = 0
  /\ host_kvm = NoStat
  /\ host_sev = NoStat
  /\ patch_ret = Ok(0)
  /\ patched = 0
  /\ prev_devices = <<>>
  /\ prev_len = 0

Init ==
  /\ pc = "start"
  /\ kconf = NoCookie
  /\ sentinel \in BOOLEAN
  /\ LoadIdle
  /\ LaunchIdle
  /\ ConfIdle
  /\ PatchIdle

(***************************************************************************)
(* libkrun_load                                                            *)
(***************************************************************************)
Load ==
  /\ pc = "start"
  /\ \E dl_std \in BOOLEAN, dl_sev \in BOOLEAN, sym_std \in BOOLEAN,
        sym_sev \in BOOLEAN, r_std \in CreateRets, r_sev \in CreateRets :
       LET res == libkrun_load(dl_std, dl_sev, sym_std, r_std, sym_sev, r_sev)
       IN  /\ kconf' = res.cookie
           /\ load_in' = [dl_std |-> dl_std, dl_sev |-> dl_sev]
           /\ created' = res.created
           /\ load_ret' = res.ret
           /\ pc' = IF res.ret.err THEN "load_failed" ELSE "loaded"
  /\ UNCHANGED <<sentinel, unloadVars, launchVars>>
  /\ UNCHANGED <<confVars, patchVars>>

(***************************************************************************)
(* libkrun_unload                                                          *)
(***************************************************************************)
Unload ==
  /\ pc = "loaded"
  /\ \E rc \in RetCodes, rc_sev \in RetCodes :
       LET res == libkrun_unload(kconf, rc, rc_sev)
       IN  /\ closed' = res.closed
           /\ unload_ret' = res.ret
  /\ pc' = "unloaded"
  /\ UNCHANGED <<kconf, sentinel, loadVars, launchVars>>
  /\ UNCHANGED <<confVars, patchVars>>

(***************************************************************************)
(* libkrun_exec, in steps.  Between two steps the sentinel file may appear *)
(* or disappear (the launch runs in the container's filesystem).           *)
(***************************************************************************)
InLaunch == pc \in {"loglevel", "root", "vm", "legacy", "start_enter"}

ToggleSentinel ==
  /\ InLaunch
  /\ sentinel' = ~sentinel
  /\ UNCHANGED <<pc, kconf, loadVars, unloadVars, launchVars>>
  /\ UNCHANGED <<confVars, patchVars>>

\* the test of the sentinel and the selection of the backend
ExecSelect ==
  /\ pc = "loaded"
  /\ sev_tests' = sev_tests + 1
  /\ sev_seen' = sentinel
  /\ LET sel == SelectBackend(kconf, sentinel)
     IN  IF sel.fatal
           THEN /\ pc' = "fatal"
                /\ exec_ret' = Fatal(0, sel.msg)
                /\ UNCHANGED <<kconf, handle, ctx_id>>
           ELSE /\ pc' = "loglevel"
                /\ handle' = sel.handle
                /\ ctx_id' = sel.ctx_id
                /\ kconf' = [kconf EXCEPT !.sev = sel.sev]
                /\ UNCHANGED exec_ret
  /\ UNCHANGED <<sentinel, loadVars, unloadVars, cwd, desc, configured, sizing, calls,
                 nosym>>
  /\ UNCHANGED <<confVars, patchVars>>

\* krun_set_log_level and krun_start_enter are resolved, the log level set
ExecLogLevel ==
  /\ pc = "loglevel"
  /\ \E sym_log \in BOOLEAN, sym_start \in BOOLEAN, r \in RetCodes :
       IF ~sym_log \/ ~sym_start
         THEN /\ pc' = "fatal"
              /\ exec_ret' = Fatal(0, "could not find symbol in the krun library")
              /\ nosym' = IF ~sym_log THEN "krun_set_log_level" ELSE "krun_start_enter"
              /\ UNCHANGED calls
         ELSE /\ pc' = "root"
              /\ UNCHANGED nosym
              /\ calls' = Append(calls, Call(handle, "krun_set_log_level", NoCtx,
                                             NULL, NULL, NULL, ToU32(1), ToU32(0), r))
              /\ UNCHANGED exec_ret
  /\ UNCHANGED <<kconf, sentinel, loadVars, unloadVars, sev_tests, sev_seen, handle,
                 ctx_id, cwd, desc, configured, sizing>>
  /\ UNCHANGED <<confVars, patchVars>>

\* the variant's root configuration
ExecRoot ==
  /\ pc = "root"
  /\ \E c \in Cwds, sym1 \in BOOLEAN, sym2 \in BOOLEAN, r1 \in RetCodes, r2 \in RetCodes :
       LET res == ConfigureRoot(kconf.sev, handle, ctx_id, c, sym1, sym2, r1, r2)
       IN  /\ cwd' = c
           /\ calls' = calls \o res.calls
           /\ nosym' = res.nosym
           /\ IF res.fatal
                THEN pc' = "fatal" /\ exec_ret' = Fatal(res.errnum, res.msg)
                ELSE pc' = "vm" /\ UNCHANGED exec_ret
  /\ UNCHANGED <<kconf, sentinel, loadVars, unloadVars, sev_tests, sev_seen, handle,
                 ctx_id, desc, configured, sizing>>
  /\ UNCHANGED <<confVars, patchVars>>

\* libkrun_configure_vm and the check of its result
ExecConfigureVm ==
  /\ pc = "vm"
  /\ \E d \in Descriptors, sym_k \in BOOLEAN, r_k \in RetCodes,
        sym_vm \in BOOLEAN, r_vm \in RetCodes :
       LET res == libkrun_configure_vm(ctx_id, handle, d.file, d.tree,
                                       sym_k, r_k, sym_vm, r_vm)
       IN  /\ desc' = d
           /\ calls' = calls \o res.calls
           /\ nosym' = res.nosym
           /\ IF res.ret.err
                THEN /\ pc' = "fatal"
                     /\ exec_ret' = Fatal(res.ret.val, "could not configure krun vm")
                     /\ UNCHANGED configured
                ELSE /\ pc' = IF res.configured THEN "start_enter" ELSE "legacy"
                     /\ configured' = res.configured
                     /\ UNCHANGED exec_ret
  /\ UNCHANGED <<kconf, sentinel, loadVars, unloadVars, sev_tests, sev_seen, handle,
                 ctx_id, cwd, sizing>>
  /\ UNCHANGED <<confVars, patchVars>>

\* the legacy sizing, when the descriptor configured none
ExecLegacy ==
  /\ pc = "legacy"
  /\ \E m \in MemLimits, a \in Affinities, sym \in BOOLEAN, r \in RetCodes :
       /\ sizing' = [limit |-> m, aff |-> a, used |-> TRUE]
       /\ IF ~sym
            THEN /\ pc' = "fatal"
                 /\ exec_ret' = Fatal(0, "could not find symbol in libkrun.so")
                 /\ nosym' = "krun_set_vm_config"
                 /\ UNCHANGED calls
            ELSE /\ UNCHANGED nosym
                 /\ calls' = Append(calls,
                               Call(handle, "krun_set_vm_config", ctx_id, NULL, NULL, NULL,
                                    ToU8(LegacyVcpus(a.ok, a.count)),
                                    LegacyRamMib(m.present, m.limit), r))
                 /\ IF r < 0
                      THEN /\ pc' = "fatal"
                           /\ exec_ret' = Fatal(0 - r, "could not set krun vm configuration")
                      ELSE pc' = "start_enter" /\ UNCHANGED exec_ret
  /\ UNCHANGED <<kconf, sentinel, loadVars, unloadVars, sev_tests, sev_seen, handle,
                 ctx_id, cwd, desc, configured>>
  /\ UNCHANGED <<confVars, patchVars>>

\* krun_start_enter; libkrun_exec returns its result negated
ExecStartEnter ==
  /\ pc = "start_enter"
  /\ \E r \in RetCodes :
       /\ calls' = Append(calls, Call(handle, "krun_start_enter", ctx_id, NULL, NULL, NULL,
                                      ToU32(0), ToU32(0), r))
       /\ exec_ret' = [kind |-> "return", errnum |-> libkrun_exec_return(r), msg |-> ""]
  /\ pc' = "returned"
  /\ UNCHANGED <<kconf, sentinel, loadVars, unloadVars, sev_tests, sev_seen, handle,
                 ctx_id, cwd, desc, configured, sizing, nosym>>
  /\ UNCHANGED <<confVars, patchVars>>

Next ==
  \/ Load
  \/ Unload
  \/ ToggleSentinel
  \/ ExecSelect
  \/ ExecLogLevel
  \/ ExecRoot
  \/ ExecConfigureVm
  \/ ExecLegacy
  \/ ExecStartEnter

Spec == Init /\ [][Next]_vars

(***************************************************************************)
(* libkrun_configure_container.                                            *)
(*                                                                         *)
(* Files hold sequences of bytes.  The entry .krun_config.json of the      *)
(* directory rootfsfd names is absent, a regular file or a symbolic link;  *)
(* a link names one of LinkTargets.                                        *)
(***************************************************************************)
Bytes == {0, 1}

Contents == UNION {[1 .. n -> Bytes] : n \in 0 .. MaxLen}

File(d) == [exists |-> TRUE, data |-> d]

\* the permission bits of a file that was there before the call
OldMode == {"S_IRUSR", "S_IWUSR"}

RegEntry(d, mode) == [kind |-> "file", data |-> d, target |-> NULL, mode |-> mode]

LinkEntry(t) == [kind |-> "link", data |-> <<>>, target |-> t, mode |-> {}]

\* the flags and the mode libkrun_configure_container opens the staged file with
WRITE_FILE_DEFAULT_FLAGS == {"O_CLOEXEC", "O_CREAT", "O_TRUNC", "O_WRONLY"}

\* StagingFlags without O_NOFOLLOW
StagingFlags_Follow == WRITE_FILE_DEFAULT_FLAGS

StagingFlags == WRITE_FILE_DEFAULT_FLAGS \cup {"O_NOFOLLOW"}

StagingMode == {"S_IRUSR", "S_IRGRP", "S_IROTH"}

\* CleanupClose when devfd is declared a plain int
CleanupClose_PlainDevfd == {"rootfsfd_cleanup", "fd"}

\* the variables declared cleanup_close: the descriptor each holds is closed
\* when the variable goes out of scope, on every return
CleanupClose == {"rootfsfd_cleanup", "fd", "devfd"}

\* cleanup_closep runs when a cleanup_close variable leaves scope and closes
\* the descriptor it holds: of the descriptors fds a call opened, those left
\* open when it returns
cleanup_closep(fds) == fds \ CleanupClose

\* writing buf at offset 0 of a file holding old
Overwrite(old, buf) == buf \o SubSeq(old, Len(buf) + 1, Len(old))

(***************************************************************************)
(* safe_openat (dirfd, rootfs, path, flags, mode) on the entry: the entry  *)
(* and the files after the open, and what the descriptor refers to (at:    *)
(* "staged", or the link's target resolved below the rootfs).  A link at   *)
(* the final component is refused under O_NOFOLLOW.  fail: the open fails  *)
(* for another reason.                                                     *)
(***************************************************************************)
safe_openat(entry, files, flags, mode, fail) ==
  LET refuse(e) == [ret |-> crun_make_error(e), entry |-> entry, files |-> files,
                    at |-> NULL]
  IN  IF fail THEN refuse(13)
      ELSE IF entry.kind = "link"
        THEN IF "O_NOFOLLOW" \in flags THEN refuse(40)
             ELSE IF ~files[entry.target].exists /\ "O_CREAT" \notin flags THEN refuse(2)
             ELSE [ret |-> Ok(0), entry |-> entry, at |-> entry.target,
                   files |-> [files EXCEPT ![entry.target] =
                                File(IF @.exists /\ "O_TRUNC" \notin flags
                                       THEN @.data ELSE <<>>)]]
      ELSE IF entry.kind = "absent"
        THEN IF "O_CREAT" \in flags
               THEN [ret |-> Ok(0), entry |-> RegEntry(<<>>, mode), files |-> files,
                     at |-> "staged"]
               ELSE refuse(2)
      ELSE [ret |-> Ok(0), files |-> files, at |-> "staged",
            entry |-> [entry EXCEPT !.data = IF "O_TRUNC" \in flags THEN <<>> ELSE @]]

(***************************************************************************)
(* safe_write (fd, buf, size) on a file holding old: w is how many bytes   *)
(* the file system takes; the write fails when it takes fewer than size.   *)
(***************************************************************************)
safe_write(old, buf, size, w) ==
  LET n == IF w < size THEN w ELSE size
  IN  [ret |-> IF w < size THEN crun_make_error(28) ELSE Ok(0),
       data |-> Overwrite(old, SubSeq(buf, 1, n))]

(***************************************************************************)
(* The staging write of the BEFORE_MOUNTS phase: config and config_size    *)
(* are what read_all_file gave.                                            *)
(***************************************************************************)
\* libkrun_stage_config passing one byte less than was read
libkrun_stage_config_Short(entry, files, config, config_size, open_fail, w) ==
  LET o == safe_openat(entry, files, StagingFlags, StagingMode, open_fail)
      size == IF config_size > 0 THEN config_size - 1 ELSE 0
      wr == safe_write(o.entry.data, config, size, w)
  IN  IF o.ret.err
        THEN [ret |-> o.ret, entry |-> o.entry, files |-> o.files, opened |-> {}]
        ELSE [ret |-> wr.ret, entry |-> [o.entry EXCEPT !.data = wr.data],
              files |-> o.files, opened |-> {"fd"}]

libkrun_stage_config(entry, files, config, config_size, open_fail, w) ==
  LET o == safe_openat(entry, files, StagingFlags, StagingMode, open_fail)
      old == IF o.at = "staged" THEN o.entry.data
             ELSE IF o.at = NULL THEN <<>> ELSE o.files[o.at].data
      wr == safe_write(old, config, config_size, w)
  IN  IF o.ret.err
        THEN [ret |-> o.ret, entry |-> o.entry, files |-> o.files, opened |-> {}]
      ELSE IF o.at = "staged"
        THEN [ret |-> wr.ret, entry |-> [o.entry EXCEPT !.data = wr.data],
              files |-> o.files, opened |-> {"fd"}]
      ELSE [ret |-> wr.ret, entry |-> o.entry,
            files |-> [o.files EXCEPT ![o.at] = File(wr.data)], opened |-> {"fd"}]

(***************************************************************************)
(* The BEFORE_MOUNTS phase after the rootfs was opened: dir_fail, whether  *)
(* libcrun_get_state_directory or append_paths fails; cfg, config.json.    *)
(***************************************************************************)
configure_before(entry, files, cfg, dir_fail, open_fail, w) ==
  IF dir_fail
    THEN [ret |-> crun_make_error(12), entry |-> entry, files |-> files, opened |-> {}]
  ELSE IF ~cfg.ok
    THEN [ret |-> crun_make_error(2), entry |-> entry, files |-> files, opened |-> {}]
  ELSE libkrun_stage_config(entry, files, cfg.data, Len(cfg.data), open_fail, w)

(***************************************************************************)
(* The AFTER_MOUNTS phase after the rootfs was opened.                     *)
(***************************************************************************)
kvm_device == [path |-> "/dev/kvm", type |-> "c", major |-> 10, minor |-> 232,
               mode |-> "0666", uid |-> 0, gid |-> 0]

sev_device == [path |-> "/dev/sev", type |-> "c", major |-> 10, minor |-> 124,
               mode |-> "0666", uid |-> 0, gid |-> 0]

\* the scan for /dev/kvm that looks at the first declared device only
KvmDeclared_FirstOnly(d) == Len(d) >= 1 /\ d[1] = "/dev/kvm"

\* /dev/kvm is already present in the spec's device list
KvmDeclared(d) == \E i \in 1 .. Len(d) : d[i] = "/dev/kvm"

\* create_sev set whether or not the confidential library is bound
CreateSev_Unbound(k, d) == ~(\E i \in 1 .. Len(d) : d[i] = "/dev/sev")

\* create_sev
CreateSev(k, d) == k.handle_sev # NULL /\ ~(\E i \in 1 .. Len(d) : d[i] = "/dev/sev")

\* libcrun_create_dev: the device node is made in the dev directory, or the
\* call fails and makes none
libcrun_create_dev(nodes, dev, fail) ==
  IF fail THEN [ret |-> crun_make_error(1), nodes |-> nodes]
  ELSE [ret |-> Ok(0), nodes |-> nodes \cup {dev}]

\* dev_fail: openat of the dev directory fails; userns_fail:
\* check_running_in_user_namespace fails; kvm_fail, sev_fail: libcrun_create_dev fails
configure_after(k, d, nodes, dev_fail, userns_fail, kvm_fail, sev_fail) ==
  LET kvm == libcrun_create_dev(nodes, kvm_device, kvm_fail)
      sev == libcrun_create_dev(kvm.nodes, sev_device, sev_fail)
  IN  IF KvmDeclared(d)
        THEN [ret |-> Ok(0), nodes |-> nodes, opened |-> {}]
      ELSE IF dev_fail
        THEN [ret |-> crun_make_error(2), nodes |-> nodes, opened |-> {}]
      ELSE IF userns_fail
        THEN [ret |-> crun_make_error(5), nodes |-> nodes, opened |-> {"devfd"}]
      ELSE IF kvm.ret.err
        THEN [ret |-> kvm.ret, nodes |-> kvm.nodes, opened |-> {"devfd"}]
      ELSE IF CreateSev(k, d)
        THEN [ret |-> sev.ret, nodes |-> sev.nodes, opened |-> {"devfd"}]
      ELSE [ret |-> Ok(0), nodes |-> kvm.nodes, opened |-> {"devfd"}]

\* the device lists of the specs of the model
DeclLists == {<<>>, <<"/dev/kvm">>, <<"/dev/sev">>, <<"/dev/null">>,
              <<"/dev/null", "/dev/kvm">>, <<"/dev/sev", "/dev/kvm">>}

\* the cookies of successful loads in which every context is 0
Cookies0 ==
  {libkrun_load(a, b, TRUE, 0, TRUE, 0).cookie : a \in BOOLEAN, b \in BOOLEAN} \ {NoCookie}

InitConfigure ==
  /\ pc = "loaded"
  /\ kconf \in Cookies0
  /\ sentinel = FALSE
  /\ LoadIdle
  /\ LaunchIdle
  /\ PatchIdle
  /\ rootfs \in {NULL, "/rootfs"}
  /\ decl \in DeclLists
  /\ config_json \in {[ok |-> FALSE, data |-> <<>>]} \cup {[ok |-> TRUE, data |-> c] : c \in Contents}
  /\ staged \in {NoEntry} \cup {RegEntry(c, OldMode) : c \in Contents}
                 \cup {LinkEntry(t) : t \in LinkTargets}
  /\ rootfs_files \in [LinkTargets -> {FileAbsent, File(<<1>>)}]
  /\ host_files = [t \in LinkTargets |-> IF t = "/etc/shadow" THEN File(<<1>>) ELSE FileAbsent]
  /\ dev_nodes = {}
  /\ conf_phase = "none"
  /\ conf_ret = Ok(0)
  /\ opened = {}
  /\ still_open = {}
  /\ prev_staged = staged
  /\ prev_files = rootfs_files
  /\ prev_nodes = {}

\* libkrun_configure_container (..., HANDLER_CONFIGURE_BEFORE_MOUNTS, ...)
ConfigureBeforeMounts ==
  /\ pc = "loaded"
  /\ \E root_fail \in BOOLEAN, dir_fail \in BOOLEAN, open_fail \in BOOLEAN, w \in 0 .. MaxLen :
       LET res == configure_before(staged, rootfs_files, config_json, dir_fail, open_fail, w)
           fds == IF rootfs = NULL THEN res.opened ELSE res.opened \cup {"rootfsfd_cleanup"}
       IN  IF rootfs # NULL /\ root_fail
             THEN /\ conf_ret' = crun_make_error(2)
                  /\ opened' = {}
                  /\ still_open' = {}
                  /\ UNCHANGED <<staged, rootfs_files>>
             ELSE /\ conf_ret' = res.ret
                  /\ staged' = res.entry
                  /\ rootfs_files' = res.files
                  /\ opened' = fds
                  /\ still_open' = cleanup_closep(fds)
  /\ conf_phase' = "before"
  /\ prev_staged' = staged
  /\ prev_files' = rootfs_files
  /\ prev_nodes' = dev_nodes
  /\ UNCHANGED <<kconf, execVars, patchVars, rootfs, decl, config_json, host_files, dev_nodes>>

\* libkrun_configure_container (..., HANDLER_CONFIGURE_AFTER_MOUNTS, ...)
ConfigureAfterMounts ==
  /\ pc = "loaded"
  /\ \E root_fail \in BOOLEAN, dev_fail \in BOOLEAN, userns_fail \in BOOLEAN,
        kvm_fail \in BOOLEAN, sev_fail \in BOOLEAN :
       LET res == configure_after(kconf, decl, dev_nodes, dev_fail, userns_fail,
                                  kvm_fail, sev_fail)
           fds == IF rootfs = NULL THEN res.opened ELSE res.opened \cup {"rootfsfd_cleanup"}
       IN  IF rootfs # NULL /\ root_fail
             THEN /\ conf_ret' = crun_make_error(2)
                  /\ opened' = {}
                  /\ still_open' = {}
                  /\ UNCHANGED dev_nodes
             ELSE /\ conf_ret' = res.ret
                  /\ dev_nodes' = res.nodes
                  /\ opened' = fds
                  /\ still_open' = cleanup_closep(fds)
  /\ conf_phase' = "after"
  /\ prev_staged' = staged
  /\ prev_files' = rootfs_files
  /\ prev_nodes' = dev_nodes
  /\ UNCHANGED <<kconf, execVars, patchVars, rootfs, decl, config_json, staged,
                 rootfs_files, host_files>>

NextConfigure ==
  \/ ConfigureBeforeMounts
  \/ ConfigureAfterMounts

SpecConfigure == InitConfigure /\ [][NextConfigure]_vars

(***************************************************************************)
(* libkrun_modify_oci_configuration.                                       *)
(*                                                                         *)
(* A host device node is absent (stat fails with errno) or a node with a   *)
(* major and a minor number; stat reports them packed in st_rdev.          *)
(***************************************************************************)
ENOENT == 2

EACCES == 13

Node(maj, min) == [ok |-> TRUE, errno |-> 0, major |-> maj, minor |-> min]

NoNode(e) == [ok |-> FALSE, errno |-> e, major |-> 0, minor |-> 0]

\* makedev, major and minor of <sys/sysmacros.h>, for device numbers below 2^31
Makedev(maj, min) == (maj % 4096) * 256 + (min % 256) + (min \div 256) * 1048576

Major(dev) == (dev \div 256) % 4096

Minor(dev) == (dev % 256) + ((dev \div 1048576) * 256)

\* stat that reports every failure as a missing file
Stat_AlwaysENOENT(node) ==
  IF node.ok THEN [ret |-> 0, errno |-> 0, st_rdev |-> Makedev(node.major, node.minor)]
  ELSE [ret |-> 0 - 1, errno |-> ENOENT, st_rdev |-> 0]

\* stat (path, &st): the return value, errno and st.st_rdev
Stat(node) ==
  IF node.ok THEN [ret |-> 0, errno |-> 0, st_rdev |-> Makedev(node.major, node.minor)]
  ELSE [ret |-> 0 - 1, errno |-> node.errno, st_rdev |-> 0]

\* a slot of the array that was allocated and not assigned
GarbageRule == [allow |-> FALSE, allow_present |-> FALSE, type |-> "unassigned",
                major |-> 0, major_present |-> FALSE, minor |-> 0,
                minor_present |-> FALSE, access |-> "unassigned"]

\* make_oci_spec_dev with major and minor exchanged
make_oci_spec_dev_Swapped(type, device, allow, access) ==
  [allow |-> allow, allow_present |-> TRUE, type |-> type,
   major |-> Minor(device), major_present |-> TRUE,
   minor |-> Major(device), minor_present |-> TRUE, access |-> access]

make_oci_spec_dev(type, device, allow, access) ==
  [allow |-> allow, allow_present |-> TRUE, type |-> type,
   major |-> Major(device), major_present |-> TRUE,
   minor |-> Minor(device), minor_present |-> TRUE, access |-> access]

\* xrealloc (arr, n slots): the slots kept, the new ones unassigned
xrealloc(arr, n) == [i \in 1 .. n |-> IF i <= Len(arr) THEN arr[i] ELSE GarbageRule]

\* libkrun_modify_oci_configuration counting one appended rule whether or
\* not /dev/sev was found
libkrun_modify_oci_configuration_OneMore(res, devs, len, kvm, sev) ==
  LET st_kvm == Stat(kvm)
      st_sev == Stat(sev)
      has_sev == ~(st_sev.ret < 0)
      arr == xrealloc(devs, len + 2 + (IF has_sev THEN 1 ELSE 0))
      with_kvm == [arr EXCEPT ![len + 1] = make_oci_spec_dev("a", st_kvm.st_rdev, TRUE, "rwm")]
      with_sev == [with_kvm EXCEPT ![len + 2] =
                     make_oci_spec_dev("a", st_sev.st_rdev, TRUE, "rwm")]
  IN  IF res # "devices"
        THEN [ret |-> Ok(0), devices |-> devs, devices_len |-> len]
      ELSE IF st_kvm.ret < 0
        THEN [ret |-> crun_make_error(st_kvm.errno), devices |-> devs, devices_len |-> len]
      ELSE IF st_sev.ret < 0 /\ st_sev.errno # ENOENT
        THEN [ret |-> crun_make_error(st_sev.errno), devices |-> devs, devices_len |-> len]
      ELSE [ret |-> Ok(0),
            devices |-> IF has_sev THEN with_sev ELSE with_kvm,
            devices_len |-> len + 1]

\* res: how much of def->linux->resources->devices exists; devs, len: the
\* array and devices_len; kvm, sev: the host's /dev/kvm and /dev/sev
libkrun_modify_oci_configuration(res, devs, len, kvm, sev) ==
  LET st_kvm == Stat(kvm)
      st_sev == Stat(sev)
      has_sev == ~(st_sev.ret < 0)
      arr == xrealloc(devs, len + 2 + (IF has_sev THEN 1 ELSE 0))
      with_kvm == [arr EXCEPT ![len + 1] = make_oci_spec_dev("a", st_kvm.st_rdev, TRUE, "rwm")]
      with_sev == [with_kvm EXCEPT ![len + 2] =
                     make_oci_spec_dev("a", st_sev.st_rdev, TRUE, "rwm")]
  IN  IF res # "devices"
        THEN [ret |-> Ok(0), devices |-> devs, devices_len |-> len]
      ELSE IF st_kvm.ret < 0
        THEN [ret |-> crun_make_error(st_kvm.errno), devices |-> devs, devices_len |-> len]
      ELSE IF st_sev.ret < 0 /\ st_sev.errno # ENOENT
        THEN [ret |-> crun_make_error(st_sev.errno), devices |-> devs, devices_len |-> len]
      ELSE [ret |-> Ok(0),
            devices |-> IF has_sev THEN with_sev ELSE with_kvm,
            devices_len |-> len + (IF has_sev THEN 2 ELSE 1)]

\* the device-cgroup rules the specs of the model declare
DenyAll == [allow |-> FALSE, allow_present |-> TRUE, type |-> "a",
            major |-> 0, major_present |-> FALSE, minor |-> 0,
            minor_present |-> FALSE, access |-> "rwm"]

AllowNull == [allow |-> TRUE, allow_present |-> TRUE, type |-> "c",
              major |-> 1, major_present |-> TRUE, minor |-> 3,
              minor_present |-> TRUE, access |-> "rwm"]

RuleLists == UNION {[1 .. n -> {DenyAll, AllowNull}] : n \in 0 .. MaxRules}

HostKvm == {NoNode(ENOENT), NoNode(EACCES), Node(10, 232), Node(10, 300)}

HostSev == {NoNode(ENOENT), NoNode(EACCES), Node(10, 124), Node(241, 1)}

InitPatch ==
  /\ pc = "loaded"
  /\ kconf \in Cookies0
  /\ sentinel = FALSE
  /\ LoadIdle
  /\ LaunchIdle
  /\ ConfIdle
  /\ resources \in {"no_linux", "no_resources", "no_devices", "devices"}
  /\ devices \in IF resources = "devices" THEN RuleLists ELSE {<<>>}
  /\ devices_len = Len(devices)
  /\ host_kvm \in HostKvm
  /\ host_sev \in HostSev
  /\ patch_ret = Ok(0)
  /\ patched = 0
  /\ prev_devices = devices
  /\ prev_len = devices_len

\* libkrun_modify_oci_configuration (cookie, context, def, err)
ModifyOciConfiguration ==
  /\ pc = "loaded"
  /\ patched < MaxPatches
  /\ LET res == libkrun_modify_oci_configuration(resources, devices, devices_len,
                                                 host_kvm, host_sev)
     IN  /\ patch_ret' = res.ret
         /\ devices' = res.devices
         /\ devices_len' = res.devices_len
  /\ patched' = patched + 1
  /\ prev_devices' = devices
  /\ prev_len' = devices_len
  /\ UNCHANGED <<kconf, execVars, confVars, resources, host_kvm, host_sev>>

NextPatch == ModifyOciConfiguration

SpecPatch == InitPatch /\ [][NextPatch]_vars

(***************************************************************************)
(* The handler over a container's life: libkrun_load, then                 *)
(* libkrun_modify_oci_configuration on the spec, the two phases of         *)
(* libkrun_configure_container in order, and libkrun_exec last, each step  *)
(* taken after the one before it succeeded.                                *)
(***************************************************************************)
\* the descriptors of the launches of a handler's life
HandlerDescriptors ==
  {[file |-> "absent", tree |-> EmptyTree],
   [file |-> "ok", tree |-> [EmptyTree EXCEPT !.kernel_path = JStr("/vmlinux"),
                                              !.kernel_format = JInt(1)]],
   [file |-> "ok", tree |-> [EmptyTree EXCEPT !.kernel_path = JStr("/vmlinux"),
                                              !.kernel_format = JInt(1),
                                              !.cpus = JInt(4),
                                              !.ram_mib = JInt(4096)]]}

InitHandler ==
  /\ pc = "start"
  /\ kconf = NoCookie
  /\ sentinel \in BOOLEAN
  /\ LoadIdle
  /\ LaunchIdle
  /\ rootfs = "/rootfs"
  /\ decl \in {<<>>, <<"/dev/sev">>}
  /\ config_json = [ok |-> TRUE, data |-> <<1>>]
  /\ staged = NoEntry
  /\ rootfs_files = [t \in LinkTargets |-> FileAbsent]
  /\ host_files = [t \in LinkTargets |-> FileAbsent]
  /\ dev_nodes = {}
  /\ conf_phase = "none"
  /\ conf_ret = Ok(0)
  /\ opened = {}
  /\ still_open = {}
  /\ prev_staged = staged
  /\ prev_files = rootfs_files
  /\ prev_nodes = {}
  /\ resources = "devices"
  /\ devices = <<DenyAll>>
  /\ devices_len = 1
  /\ host_kvm = Node(10, 232)
  /\ host_sev \in {NoNode(ENOENT), Node(10, 124)}
  /\ patch_ret = Ok(0)
  /\ patched = 0
  /\ prev_devices = devices
  /\ prev_len = devices_len

\* the spec is patched once, before the container is configured
HandlerPatch ==
  /\ patched = 0
  /\ conf_phase = "none"
  /\ ModifyOciConfiguration

HandlerBeforeMounts ==
  /\ patched = 1 /\ ~patch_ret.err
  /\ conf_phase = "none"
  /\ ConfigureBeforeMounts

HandlerAfterMounts ==
  /\ conf_phase = "before" /\ ~conf_ret.err
  /\ ConfigureAfterMounts

\* libkrun_exec (cookie, container, pathname, argv), from the test of the
\* sentinel to its return or to the exit of the process; at most one entry
\* point is missing from the library and at most one fails
LibkrunExec ==
  /\ pc = "loaded"
  /\ conf_phase = "after" /\ ~conf_ret.err
  /\ \E c \in Cwds, d \in HandlerDescriptors, m \in MemLimits, a \in Affinities,
        missing \in {NULL} \cup EntryPoints, failing \in {NULL} \cup EntryPoints :
       LET res == libkrun_exec(kconf, sentinel, c, d, m, a, EntryPoints \ {missing},
                               [f \in EntryPoints |-> IF f = failing THEN 0 - 1 ELSE 0])
       IN  /\ kconf' = [kconf EXCEPT !.sev = res.sev]
           /\ sev_tests' = sev_tests + 1
           /\ sev_seen' = sentinel
           /\ handle' = res.handle
           /\ ctx_id' = res.ctx_id
           /\ cwd' = res.cwd
           /\ desc' = res.desc
           /\ configured' = res.configured
           /\ sizing' = res.sizing
           /\ calls' = res.calls
           /\ nosym' = res.nosym
           /\ exec_ret' = res.ret
           /\ pc' = IF res.ret.kind = "return" THEN "returned" ELSE "fatal"
  /\ UNCHANGED <<sentinel, loadVars, unloadVars>>
  /\ UNCHANGED <<confVars, patchVars>>

NextHandler ==
  \/ Load
  \/ HandlerPatch
  \/ HandlerBeforeMounts
  \/ HandlerAfterMounts
  \/ LibkrunExec

SpecHandler == InitHandler /\ [][NextHandler]_vars

(***************************************************************************)
(* Properties of load, unload and exec (checked under Spec).               *)
(***************************************************************************)
\* the launch has tested the sentinel
Tested == sev_tests >= 1

\* the library and the context the answer of the sentinel test calls for
SelectedLib == IF sev_seen THEN LIBKRUN_SEV_SO ELSE LIBKRUN_SO

SelectedCtx == IF sev_seen THEN kconf.ctx_id_sev ELSE kconf.ctx_id

CallsOf(fn) == {i \in 1 .. Len(calls) : calls[i].fn = fn}

\* C1: every backend call of a launch is made on the confidential library
\* with the confidential context when the sentinel test found the file, on
\* the standard library with the standard context when it did not; the
\* sentinel is tested once per launch, and the choice holds to the end of the
\* launch whatever happens to the file afterwards.
C1_SelectionBySentinel ==
  /\ sev_tests <= 1
  /\ (InLaunch \/ pc \in {"fatal", "returned"}) => sev_tests = 1
  /\ ~Tested => calls = <<>>
  /\ \A i \in 1 .. Len(calls) :
       /\ calls[i].lib = SelectedLib
       /\ calls[i].ctx = IF calls[i].fn = "krun_set_log_level" THEN NoCtx ELSE SelectedCtx
  /\ (InLaunch \/ pc = "returned") =>
       /\ handle = SelectedLib
       /\ ctx_id = SelectedCtx
       /\ kconf.sev = sev_seen

\* a confidential launch ran to the end on the confidential library although
\* the sentinel file disappeared after the test, both libraries being bound
\* with different contexts
C1_Witness ==
  /\ pc = "returned"
  /\ sev_seen /\ ~sentinel
  /\ kconf.handle # NULL /\ kconf.ctx_id # kconf.ctx_id_sev
  /\ Len(calls) >= 5

\* C2: when the library the sentinel test calls for was never bound, the
\* launch ends fatally and no backend call has been made on either library.
C2_FatalBeforeAnyCall ==
  (Tested /\ (IF sev_seen THEN kconf.handle_sev ELSE kconf.handle) = NULL) =>
    /\ pc = "fatal"
    /\ exec_ret.kind = "exit"
    /\ calls = <<>>

\* the sentinel is present, only the standard library is bound, the launch
\* has ended fatally
C2_Witness ==
  /\ Tested /\ sev_seen
  /\ kconf.handle_sev = NULL /\ kconf.handle # NULL
  /\ pc = "fatal"
  /\ exec_ret.msg = "the container requires libkrun-sev but it's not available"

\* the descriptor was read and parsed
DescriptorParsed == desc.file = "ok"

\* cpus and ram_mib are both present as integers
ValidSizing(t) == t.cpus.t = "integer" /\ t.ram_mib.t = "integer"

\* kernel_path is present as a string and kernel_format as an integer
ValidKernelPair(t) == t.kernel_path.t = "string" /\ t.kernel_format.t = "integer"

\* the arguments of a krun_set_vm_config call are the legacy-derived pair
LegacyArgs(c) ==
  /\ sizing.used
  /\ c.n1 = ToU8(LegacyVcpus(sizing.aff.ok, sizing.aff.count))
  /\ c.n2 = LegacyRamMib(sizing.limit.present, sizing.limit.limit)

\* C5: with a parsed descriptor in which cpus or ram_mib is missing or is not
\* an integer, sizing is not taken as configured, the launch does not fail
\* because of the sizing fields (a failure of the descriptor step comes from
\* the kernel pair), every krun_set_vm_config call carries the legacy pair and
\* nothing of the descriptor, and a launch that goes on makes exactly that one
\* call.
C5_PartialSizingNeverApplies ==
  (DescriptorParsed /\ ~ValidSizing(desc.tree)) =>
    /\ ~configured
    /\ \A i \in CallsOf("krun_set_vm_config") : LegacyArgs(calls[i])
    /\ (pc = "fatal" /\ exec_ret.msg = "could not configure krun vm")
         => ValidKernelPair(desc.tree)
    /\ pc \in {"start_enter", "returned"} => Cardinality(CallsOf("krun_set_vm_config")) = 1

\* the descriptor holds cpus = 4 and an ill-typed ram_mib, and the launch ran
\* to the end with the legacy sizing
C5_Witness ==
  /\ pc = "returned"
  /\ DescriptorParsed
  /\ desc.tree.cpus = JInt(4) /\ desc.tree.ram_mib.t = "string"
  /\ \E i \in CallsOf("krun_set_vm_config") : calls[i].n1 # ToU8(4)

\* C6 as stated: once the launch has looked at the descriptor,
\* krun_set_kernel has been called if and only if the descriptor parsed and
\* holds a string kernel_path and an integer kernel_format.
C6_SetKernelIffPair ==
  desc.file # "unread" =>
    (CallsOf("krun_set_kernel") # {} <=> (DescriptorParsed /\ ValidKernelPair(desc.tree)))

\* C6 amended: krun_set_kernel is called (once) if and only if the launch
\* reaches the descriptor, the descriptor parses and holds both fields well
\* typed, and krun_set_kernel resolves in the selected library; with one of
\* the two missing or ill typed it is never called, whatever initrd_path and
\* kernel_cmdline hold, and the launch goes on to sizing.
C6_SetKernelIffPairAndSymbol ==
  /\ CallsOf("krun_set_kernel") # {} <=>
       (DescriptorParsed /\ ValidKernelPair(desc.tree) /\ nosym # "krun_set_kernel")
  /\ Cardinality(CallsOf("krun_set_kernel")) <= 1
  /\ (DescriptorParsed /\ ~ValidKernelPair(desc.tree)) =>
       \/ pc \in {"legacy", "start_enter", "returned"}
       \/ CallsOf("krun_set_vm_config") # {}
       \/ nosym = "krun_set_vm_config"

\* kernel_path, initrd_path and kernel_cmdline are present, kernel_format is
\* not, and the launch went on to the legacy sizing without krun_set_kernel
C6_Witness ==
  /\ DescriptorParsed
  /\ desc.tree.kernel_path.t = "string" /\ desc.tree.kernel_format.t = "absent"
  /\ desc.tree.initrd_path.t = "string" /\ desc.tree.kernel_cmdline.t = "string"
  /\ CallsOf("krun_set_kernel") = {}
  /\ sizing.used /\ pc = "returned"

\* C8 as stated: load fails only if no context was created, so with both
\* libraries bound and one krun_create_ctx failing, load succeeds.
C8_LoadFailsOnlyWithoutContext ==
  pc = "load_failed" => created = {}

\* C9 as stated: unload calls dlclose on every bound library, whatever the
\* other dlclose returned.
C9_UnloadReleasesEach ==
  pc = "unloaded" =>
    /\ kconf.handle # NULL => \E i \in 1 .. Len(closed) : closed[i].lib = kconf.handle
    /\ kconf.handle_sev # NULL => \E i \in 1 .. Len(closed) : closed[i].lib = kconf.handle_sev

\* an unsigned argument arrived holding exactly the integer x
Received(arg, x) == x >= 0 /\ arg.hi = x \div 65536 /\ arg.lo = x % 65536

\* C11 as stated: the krun_set_vm_config call of the legacy sizing receives
\* min(affinity set size, 16) vCPUs, or 1 when sched_getaffinity failed, a
\* count within 1..16, and as RAM the declared memory limit divided by
\* 1048576, or 2048 when none is declared, each exactly as computed.
C11_LegacySizingArrivesUnaltered ==
  sizing.used =>
    \A i \in CallsOf("krun_set_vm_config") :
      LET a == sizing.aff
          m == sizing.limit
          vcpus == IF a.ok THEN (IF a.count < 16 THEN a.count ELSE 16) ELSE 1
          ram == IF m.present THEN CDiv(m.limit, 1048576) ELSE 2048
      IN  /\ vcpus \in 1 .. 16
          /\ Received(calls[i].n1, vcpus)
          /\ Received(calls[i].n2, ram)

\* C12 as stated: a backend entry point other than krun_start_enter that
\* returned a negative value made the last call of the launch: the launch
\* ended fatally there and krun_start_enter was never called.
C12_NegativeReturnIsFatal ==
  \A i \in 1 .. Len(calls) :
    (calls[i].ret < 0 /\ calls[i].fn # "krun_start_enter") =>
      /\ i = Len(calls)
      /\ pc = "fatal"
      /\ exec_ret.kind = "exit"
      /\ CallsOf("krun_start_enter") = {}

\* C13: a launch calls krun_set_vm_config at most once.  The legacy sizing
\* runs only when the descriptor step made no krun_set_vm_config call at all;
\* when the descriptor step configured the sizing the legacy sizing is not
\* used; a krun_set_vm_config call that failed is the last call of the launch,
\* which ended fatally.
C13_SetVmConfigAtMostOnce ==
  /\ Cardinality(CallsOf("krun_set_vm_config")) <= 1
  /\ sizing.used =>
       /\ ~configured
       /\ \A i \in CallsOf("krun_set_vm_config") : LegacyArgs(calls[i])
  /\ configured =>
       /\ ~sizing.used
       /\ \E i \in CallsOf("krun_set_vm_config") : calls[i].ret >= 0
  /\ \A i \in CallsOf("krun_set_vm_config") :
       calls[i].ret < 0 => (i = Len(calls) /\ pc = "fatal")

\* the descriptor holds a valid sizing pair, the krun_set_vm_config call made
\* with it failed, and the launch ended without the legacy sizing
C13_Witness ==
  /\ DescriptorParsed /\ ValidSizing(desc.tree)
  /\ \E i \in CallsOf("krun_set_vm_config") :
       calls[i].ret < 0 /\ calls[i].n1 = ToU8(4) /\ calls[i].n2 = ToU32(4096)
  /\ ~sizing.used
  /\ pc = "fatal"

\* the root-configuration calls of the launch in order, each with its path
RootCalls ==
  LET sel == SelectSeq(calls, LAMBDA c : c.fn \in {"krun_set_root", "krun_set_workdir",
                                                   "krun_set_root_disk",
                                                   "krun_set_tee_config_file"})
  IN  [i \in 1 .. Len(sel) |-> <<sel[i].fn, sel[i].s1>>]

\* the root configuration of the launch completed
RootConfigured == pc \in {"vm", "legacy", "start_enter", "returned"} \/ desc # NoDescriptor

\* C15: a confidential launch never calls krun_set_root or krun_set_workdir,
\* and its completed root configuration is krun_set_root_disk ("/disk.img")
\* followed by krun_set_tee_config_file ("/krun-sev.json"); a standard launch
\* never calls krun_set_root_disk or krun_set_tee_config_file, and its
\* completed root configuration is krun_set_root ("/"), followed by
\* krun_set_workdir (cwd) if and only if the spec declares a working directory.
C15_DisjointRootConfiguration ==
  /\ (Tested /\ sev_seen) =>
       /\ CallsOf("krun_set_root") = {} /\ CallsOf("krun_set_workdir") = {}
       /\ RootConfigured =>
            RootCalls = << <<"krun_set_root_disk", "/disk.img">>,
                           <<"krun_set_tee_config_file", KRUN_SEV_FILE>> >>
  /\ (Tested /\ ~sev_seen) =>
       /\ CallsOf("krun_set_root_disk") = {} /\ CallsOf("krun_set_tee_config_file") = {}
       /\ RootConfigured =>
            RootCalls = IF cwd = NULL THEN << <<"krun_set_root", "/">> >>
                        ELSE << <<"krun_set_root", "/">>, <<"krun_set_workdir", cwd>> >>

\* a standard launch whose spec declares no working directory ran to the end
\* with krun_set_root as its only root-configuration call
C15_Witness ==
  /\ pc = "returned"
  /\ ~sev_seen /\ cwd = NULL
  /\ CallsOf("krun_set_root") # {}
  /\ CallsOf("krun_set_workdir") = {}

\* C16: when /.krun_vm.json does not exist the descriptor step makes no call
\* and raises no error, and the launch goes on to the legacy sizing; when the
\* file exists and cannot be read, or does not parse, the launch ends fatally
\* in the descriptor step and krun_set_kernel, krun_set_vm_config and
\* krun_start_enter are never called.
C16_AbsentIsNoOpBrokenIsFatal ==
  /\ desc.file = "absent" =>
       /\ CallsOf("krun_set_kernel") = {}
       /\ ~configured
       /\ pc = "legacy" \/ sizing.used
       /\ exec_ret.msg # "could not configure krun vm"
  /\ desc.file \in {"unreadable", "malformed"} =>
       /\ pc = "fatal"
       /\ exec_ret = Fatal(exec_ret.errnum, "could not configure krun vm")
       /\ ~sizing.used
       /\ CallsOf("krun_set_kernel") = {}
       /\ CallsOf("krun_set_vm_config") = {}
       /\ CallsOf("krun_start_enter") = {}

\* the descriptor exists and does not parse: the launch ended fatally after
\* the root configuration
C16_Witness ==
  /\ desc.file = "malformed"
  /\ pc = "fatal"
  /\ RootConfigured
  /\ Len(calls) >= 2

\* C17: krun_start_enter is called at most once and nothing follows it.  When
\* it has been called the launch has returned the negation of its result, the
\* first call of the launch was krun_set_log_level (1), the variant's root
\* configuration is complete, and exactly one krun_set_vm_config call was
\* made, which succeeded; no launch returns without calling it.
C17_StartEnterIsLast ==
  /\ Cardinality(CallsOf("krun_start_enter")) <= 1
  /\ pc = "returned" <=> CallsOf("krun_start_enter") # {}
  /\ exec_ret.kind = "return" <=> pc = "returned"
  /\ \A i \in CallsOf("krun_start_enter") :
       /\ i = Len(calls)
       /\ exec_ret = [kind |-> "return", errnum |-> 0 - calls[i].ret, msg |-> ""]
       /\ calls[1].fn = "krun_set_log_level" /\ calls[1].n1 = ToU32(1)
       /\ CallsOf("krun_set_log_level") = {1}
       /\ Len(RootCalls) = IF sev_seen \/ cwd # NULL THEN 2 ELSE 1
       /\ \A j \in 2 .. Len(RootCalls) + 1 :
            calls[j].ret >= 0 /\ <<calls[j].fn, calls[j].s1>> = RootCalls[j - 1]
       /\ Cardinality(CallsOf("krun_set_vm_config")) = 1
       /\ \A j \in CallsOf("krun_set_vm_config") : calls[j].ret >= 0 /\ j > Len(RootCalls) + 1

\* a confidential launch with an explicit sizing ran to the end:
\* krun_start_enter failed and libkrun_exec returned the negated code
C17_Witness ==
  /\ pc = "returned"
  /\ sev_seen /\ configured
  /\ calls[Len(calls)].fn = "krun_start_enter" /\ calls[Len(calls)].ret < 0
  /\ exec_ret.errnum = 1

\* C18: when dlsym does not find an entry point the launch needs, the launch
\* ends fatally at that point: the entry point was never called, nothing of
\* the step it belongs to was called (no call at all for krun_set_log_level
\* and krun_start_enter, no root-configuration call for the variant's setters,
\* no krun_set_vm_config for krun_set_kernel), krun_start_enter was never
\* called, and the error carries no backend code: its number is 0, or what
\* crun_make_error returns for the status 0.
C18_MissingSymbolIsFatal ==
  nosym # NULL =>
    /\ pc = "fatal"
    /\ exec_ret.kind = "exit"
    /\ exec_ret.errnum \in {0, crun_make_error(0).val}
    /\ CallsOf(nosym) = {}
    /\ CallsOf("krun_start_enter") = {}
    /\ nosym \in {"krun_set_log_level", "krun_start_enter"} => calls = <<>>
    /\ nosym \in {"krun_set_root", "krun_set_workdir", "krun_set_root_disk",
                  "krun_set_tee_config_file"} => RootCalls = <<>>
    /\ nosym = "krun_set_kernel" => CallsOf("krun_set_vm_config") = {}

\* the descriptor holds a kernel pair and krun_set_kernel does not resolve:
\* the launch ended fatally after the root configuration
C18_Witness ==
  /\ nosym = "krun_set_kernel"
  /\ DescriptorParsed /\ ValidKernelPair(desc.tree)
  /\ pc = "fatal"
  /\ RootCalls # <<>>

(***************************************************************************)
(* Properties of configure_container (checked under SpecConfigure).        *)
(***************************************************************************)
LastWas(phase) == conf_phase = phase

\* the rootfs directory was to be opened and the open failed
RootfsOpenFailed == rootfs # NULL /\ "rootfsfd_cleanup" \notin opened

\* C3: when .krun_config.json is a symbolic link at the BEFORE_MOUNTS call,
\* the call returns an error, the link stays as it was, and no file the link
\* can name, below the rootfs or on the host, is created or modified.
C3_LinkNeverFollowed ==
  (LastWas("before") /\ prev_staged.kind = "link") =>
    /\ conf_ret.err
    /\ staged = prev_staged
    /\ rootfs_files = prev_files
    /\ host_files["/etc/shadow"] = File(<<1>>)
    /\ host_files["other.json"] = FileAbsent

\* the entry is a link to /etc/shadow, which does not exist below the
\* rootfs; the open was refused with ELOOP and the target was not created
C3_Witness ==
  /\ LastWas("before")
  /\ prev_staged = LinkEntry("/etc/shadow")
  /\ conf_ret.err /\ conf_ret.status = 40
  /\ ~rootfs_files["/etc/shadow"].exists
  /\ config_json.ok /\ Len(config_json.data) = MaxLen

\* C4: when the BEFORE_MOUNTS call returns success, .krun_config.json is a
\* regular file whose bytes are exactly those of config.json, whatever the
\* entry held before.
C4_StagedEqualsConfig ==
  (LastWas("before") /\ ~conf_ret.err) =>
    /\ config_json.ok
    /\ staged.kind = "file"
    /\ staged.data = config_json.data

\* the staged file held more bytes than config.json does, and the call
\* succeeded
C4_Witness ==
  /\ LastWas("before") /\ ~conf_ret.err
  /\ prev_staged.kind = "file"
  /\ Len(prev_staged.data) > Len(config_json.data)
  /\ staged.data = config_json.data

\* /dev/kvm is among the declared devices
DeclaresKvm == \E i \in DOMAIN decl : decl[i] = "/dev/kvm"

\* C7 as stated: with /dev/kvm declared, the AFTER_MOUNTS call creates no
\* device node, does not open the dev directory, and returns success.
C7_DeclaredKvmIsNoOp ==
  (LastWas("after") /\ DeclaresKvm) =>
    /\ dev_nodes = prev_nodes
    /\ "devfd" \notin opened
    /\ ~conf_ret.err

\* C7 amended: with /dev/kvm declared, the AFTER_MOUNTS call creates no
\* device node and does not open the dev directory, however often it is
\* repeated, and it returns success unless the open of the rootfs directory,
\* which precedes the look at the device list, fails.
C7_DeclaredKvmCreatesNothing ==
  DeclaresKvm =>
    /\ dev_nodes = {}
    /\ LastWas("after") =>
         /\ dev_nodes = prev_nodes
         /\ "devfd" \notin opened
         /\ conf_ret.err <=> RootfsOpenFailed

\* /dev/kvm is declared after another device, the confidential library is
\* bound, and the AFTER_MOUNTS call returned success
C7_Witness ==
  /\ LastWas("after")
  /\ decl = <<"/dev/null", "/dev/kvm">>
  /\ kconf.handle_sev # NULL
  /\ rootfs # NULL
  /\ ~conf_ret.err
  /\ dev_nodes = {}

DeclaresSev == \E i \in DOMAIN decl : decl[i] = "/dev/sev"

\* the confidential library is bound
SevBound == kconf.handle_sev # NULL

\* C14 as stated: after an AFTER_MOUNTS call that returned success, the
\* /dev/sev node exists exactly when the confidential library is bound and
\* /dev/sev is not declared, and the /dev/kvm node exactly when /dev/kvm is
\* not declared.
C14_EachNodeWhenAbsent ==
  (LastWas("after") /\ ~conf_ret.err) =>
    /\ sev_device \in dev_nodes <=> (SevBound /\ ~DeclaresSev)
    /\ kvm_device \in dev_nodes <=> ~DeclaresKvm

\* C14 amended: the only nodes made are /dev/kvm (c 10:232 0666) and /dev/sev
\* (c 10:124 0666).  /dev/sev is made only when the confidential library is
\* bound and neither /dev/sev nor /dev/kvm is declared, /dev/kvm only when
\* /dev/kvm is not declared; after an AFTER_MOUNTS call that returned success
\* with /dev/kvm not declared, /dev/kvm exists, and /dev/sev exists exactly
\* when the library is bound and /dev/sev is not declared.
C14_SevOnlyWithoutDeclaredKvm ==
  /\ dev_nodes \subseteq {kvm_device, sev_device}
  /\ sev_device \in dev_nodes => (SevBound /\ ~DeclaresSev /\ ~DeclaresKvm)
  /\ kvm_device \in dev_nodes => ~DeclaresKvm
  /\ (LastWas("after") /\ ~conf_ret.err /\ ~DeclaresKvm) =>
       /\ kvm_device \in dev_nodes
       /\ sev_device \in dev_nodes <=> (SevBound /\ ~DeclaresSev)

\* the confidential library is bound, another device is declared, neither
\* /dev/kvm nor /dev/sev is, and the AFTER_MOUNTS call made the /dev/sev node
C14_Witness ==
  /\ LastWas("after") /\ ~conf_ret.err
  /\ SevBound /\ decl = <<"/dev/null">>
  /\ sev_device \notin prev_nodes
  /\ \E n \in dev_nodes :
       /\ n.path = "/dev/sev" /\ n.type = "c"
       /\ n.major = 10 /\ n.minor = 124 /\ n.mode = "0666"

\* C19: no descriptor a call of libkrun_configure_container opened is open
\* when the call has returned, whether it returned success or an error; the
\* descriptors it opens are the rootfs directory (when a rootfs path is given
\* and the open succeeds), the staged file and the dev directory.
C19_DescriptorsClosedOnReturn ==
  /\ still_open = {}
  /\ opened \subseteq {"rootfsfd_cleanup", "fd", "devfd"}
  /\ (LastWas("before") /\ staged # prev_staged) => "fd" \in opened
  /\ (LastWas("after") /\ dev_nodes # prev_nodes) => "devfd" \in opened

\* an AFTER_MOUNTS call opened the rootfs directory and the dev directory,
\* made /dev/kvm and then failed
C19_Witness ==
  /\ LastWas("after")
  /\ conf_ret.err
  /\ opened = {"rootfsfd_cleanup", "devfd"}
  /\ kvm_device \in dev_nodes \ prev_nodes

(***************************************************************************)
(* Properties of modify_oci_configuration (checked under SpecPatch).       *)
(***************************************************************************)
\* the rule the patcher appends for a host device node
AllowRule(node) ==
  [allow |-> TRUE, allow_present |-> TRUE, type |-> "a",
   major |-> node.major, major_present |-> TRUE,
   minor |-> node.minor, minor_present |-> TRUE, access |-> "rwm"]

\* C10: a call on a spec that declares no device-cgroup rules changes
\* nothing; a call that succeeds on a spec that declares them leaves the old
\* entries at their positions, puts the allow/rwm rule of the host's /dev/kvm
\* right after them and, when the host has /dev/sev, the rule of /dev/sev
\* after that, and adds the number of appended rules to devices_len.
C10_AppendOnly ==
  patched >= 1 =>
    /\ resources # "devices" =>
         /\ ~patch_ret.err
         /\ devices = prev_devices
         /\ devices_len = prev_len
    /\ (resources = "devices" /\ ~patch_ret.err) =>
         /\ host_kvm.ok
         /\ devices_len = prev_len + 1 + (IF host_sev.ok THEN 1 ELSE 0)
         /\ Len(devices) >= devices_len
         /\ \A i \in 1 .. prev_len : devices[i] = prev_devices[i]
         /\ devices[prev_len + 1] = AllowRule(host_kvm)
         /\ host_sev.ok => devices[prev_len + 2] = AllowRule(host_sev)

\* two rules were declared, the host has /dev/kvm with a minor above 255 and
\* /dev/sev, and the call appended both rules
C10_Witness ==
  /\ patched = 1 /\ ~patch_ret.err
  /\ resources = "devices"
  /\ prev_len = 2 /\ prev_devices[1] # prev_devices[2]
  /\ host_kvm = Node(10, 300) /\ host_sev.ok
  /\ devices_len = 4

\* C20: on a spec that declares device-cgroup rules a call fails if and only
\* if the host has no reachable /dev/kvm, or stat of /dev/sev failed for a
\* reason other than the node not existing (errno 2); a call that failed left
\* the rule array and devices_len as they were; with /dev/kvm present and
\* /dev/sev not existing the call succeeds and appends the /dev/kvm rule alone.
C20_FailsOnlyOnStatFailure ==
  (patched >= 1 /\ resources = "devices") =>
    /\ patch_ret.err <=> (~host_kvm.ok \/ (~host_sev.ok /\ host_sev.errno # 2))
    /\ patch_ret.err =>
         /\ devices = prev_devices
         /\ devices_len = prev_len
    /\ (host_kvm.ok /\ ~host_sev.ok /\ host_sev.errno = 2) =>
         /\ ~patch_ret.err
         /\ devices_len = prev_len + 1
         /\ devices[devices_len] = AllowRule(host_kvm)

\* two rules are declared, the host has /dev/kvm, stat of /dev/sev failed
\* with EACCES: the call failed and the two rules are all there is
C20_Witness ==
  /\ patched >= 1 /\ resources = "devices"
  /\ host_kvm.ok /\ host_sev = NoNode(EACCES)
  /\ patch_ret.err /\ patch_ret.status = 13
  /\ devices_len = 2 /\ devices = prev_devices

(***************************************************************************)
(* Properties of the handler state over a container's life (checked under  *)
(* SpecHandler).                                                           *)
(***************************************************************************)
\* libkrun_load succeeded
Loaded == pc \in {"loaded", "fatal", "returned"}

\* C21: after a successful load, whatever modify_oci_configuration, the two
\* phases of configure_container and exec have done, each handle of the
\* handler state is the library dlopen bound in load (NULL when it bound
\* none), each context field of a bound library holds the context
\* krun_create_ctx of that library returned in load, and the flag sev is
\* false until exec selected a backend and then says which; every backend
\* call of exec that takes a context passes one that krun_create_ctx of the
\* library the entry point belongs to returned in load.
C21_CookieStableAndContextsMatch ==
  Loaded =>
    /\ kconf.handle = IF load_in.dl_std THEN LIBKRUN_SO ELSE NULL
    /\ kconf.handle_sev = IF load_in.dl_sev THEN LIBKRUN_SEV_SO ELSE NULL
    /\ kconf.handle # NULL => [lib |-> LIBKRUN_SO, ctx |-> kconf.ctx_id] \in created
    /\ kconf.handle_sev # NULL =>
         [lib |-> LIBKRUN_SEV_SO, ctx |-> kconf.ctx_id_sev] \in created
    /\ kconf.handle = NULL => kconf.ctx_id = Uninit
    /\ kconf.handle_sev = NULL => kconf.ctx_id_sev = Uninit
    /\ \A p \in created, q \in created : p.lib = q.lib => p = q
    /\ kconf.sev = (handle # NULL /\ sev_seen)
    /\ \A i \in 1 .. Len(calls) :
         IF calls[i].fn = "krun_set_log_level" THEN calls[i].ctx = NoCtx
         ELSE [lib |-> calls[i].lib, ctx |-> calls[i].ctx] \in created

\* both libraries are bound with different contexts, the spec was patched and
\* the container configured, and a confidential launch ran to the end
C21_Witness ==
  /\ pc = "returned"
  /\ kconf.handle # NULL /\ kconf.handle_sev # NULL
  /\ kconf.ctx_id # kconf.ctx_id_sev
  /\ patched = 1 /\ devices_len > prev_len
  /\ conf_phase = "after" /\ sev_device \in dev_nodes
  /\ kconf.sev
  /\ Len(calls) >= 5

====
